---- MODULE Spec2Model ----
(***************************************************************************)
(* A model of wrangle.py: the cleaners (load_clean_pop, load_clean_eng),   *)
(* the builders (build_pop, build_eng) and the assembler build_full.       *)
(*                                                                         *)
(* A pandas DataFrame is a sequence of records (row order is kept, since   *)
(* the forward-fill and the joins depend on it); a column is a record      *)
(* field.  A float cell is a pair <<n, d>> read as n/d, with <<1, 0>> for  *)
(* +inf and <<0, 0>> for NaN (a missing numeric cell is NaN in pandas); a  *)
(* missing text cell is the string "NA".                                   *)
(***************************************************************************)
EXTENDS Integers, Sequences, FiniteSets, TLC

VARIABLES pc, genFile, emiFile, eng_df, data, data0, filled1, todo, popFiles, pop_df

vars == <<pc, genFile, emiFile, eng_df, data, data0, filled1, todo, popFiles, pop_df>>

(***************************************************************************)
(* Bounds of the model.                                                    *)
(***************************************************************************)
MaxEngRows == 3
MaxFillRows == 4

(***************************************************************************)
(* Sequence helpers.                                                       *)
(***************************************************************************)
SeqsUpTo(S, n) == UNION {[1..k -> S] : k \in 0..n}

RECURSIVE Concat(_)
Concat(ss) == IF ss = <<>> THEN <<>> ELSE Head(ss) \o Concat(Tail(ss))

MapSeq(s, F(_)) == [i \in 1..Len(s) |-> F(s[i])]

Count(s, P(_)) == Cardinality({i \in 1..Len(s) : P(s[i])})

DropCol(r, cols) == [f \in (DOMAIN r) \ cols |-> r[f]]

(***************************************************************************)
(* Float cells.                                                            *)
(***************************************************************************)
RECURSIVE GCD(_, _)
GCD(a, b) == IF b = 0 THEN a ELSE GCD(b, a % b)

Norm(n, d) == IF n = 0 /\ d = 0 THEN <<0, 0>>
              ELSE LET g == GCD(n, d) IN <<n \div g, d \div g>>

NaN == <<0, 0>>
Inf == <<1, 0>>
Num(k) == <<k, 1>>
IsNaN(x) == x = NaN

\* x / y in IEEE arithmetic on non-negative values: k/0 = inf, 0/0 = NaN,
\* anything with NaN = NaN, inf/inf = NaN, k/inf = 0.
Div(x, y) == Norm(x[1] * y[2], x[2] * y[1])

Add(x, y) == IF x = Inf /\ y = Inf THEN Inf
             ELSE Norm(x[1] * y[2] + y[1] * x[2], x[2] * y[2])

\* Series.sum() / GroupBy.sum(): NaN cells are skipped, an empty sum is 0.
RECURSIVE SumSkipNa(_)
SumSkipNa(xs) == IF xs = <<>> THEN Num(0)
                 ELSE IF IsNaN(Head(xs)) THEN SumSkipNa(Tail(xs))
                 ELSE Add(Head(xs), SumSkipNa(Tail(xs)))

\* x > y on non-NaN cells.
Gt(x, y) == x[1] * y[2] > y[1] * x[2]

(***************************************************************************)
(* Text normalisation, by what it does on the values of the model.         *)
(***************************************************************************)
\* str.upper() on the state column (line 194)
Upper(s) == CASE s = "ca" -> "CA"
              [] s = "tx" -> "TX"
              [] s = "dc" -> "DC"
              [] s = "pr" -> "PR"
              [] s = "US-Total" -> "US-TOTAL"
              [] OTHER -> s

\* the three str.replace calls on the src column (lines 188-193)
Canon(s) == CASE s = "Hydroelectric Conventional" -> "Hydroelectric"
              [] s = "Wood and Wood Derived Fuels" -> "Wood Derived Fuels"
              [] s = "Solar Thermal and Photovoltaic" -> "Solar"
              [] OTHER -> s

TEPI == "Total Electric Power Industry"

\* np.where(...) of lines 167-169
Renew(src) == IF src \in {"Coal", "Natural Gas", "Petroleum"}
              THEN "Nonrenewable" ELSE "Renewable"

(***************************************************************************)
(* load_clean_eng.  A raw row is [year, state, producer, src, ...]; the    *)
(* pandas index of a row is carried as the field idx until reset_index.    *)
(***************************************************************************)
WithIndex(file) == [i \in 1..Len(file) |-> file[i] @@ [idx |-> i]]

\* totals_mask: a boolean Series indexed like the frame it was computed from
TotalsMask(df) == {df[i].idx : i \in {j \in 1..Len(df) : df[j].producer = TEPI}}

\* line 174 left out: the "Total" source rows stay
DropTotalSrcSkipped(df) == df

\* df.loc[df.loc[:, "src"] != "Total", :]   (line 174)
NotTotalSrc(r) == r.src # "Total"
DropTotalSrc(df) == SelectSeq(df, NotTotalSrc)

\* df.loc[totals_mask, keep_cols]: the mask is aligned on the index labels
ApplyMask(df, mask) == LET Kept(r) == r.idx \in mask
                       IN  MapSeq(SelectSeq(df, Kept), LAMBDA r : DropCol(r, {"producer"}))

\* lines 186-194: reset_index, canonical source names, upper-case state
Tidy(r) == [DropCol(r, {"idx"}) EXCEPT !.src = Canon(r.src), !.state = Upper(r.state)]

LoadCleanGen(file) ==
    LET df0  == MapSeq(WithIndex(file), LAMBDA r : r @@ [renew |-> Renew(r.src)])
        mask == TotalsMask(df0)
        df   == DropTotalSrc(df0)
    IN  MapSeq(ApplyMask(df, mask), Tidy)

LoadCleanEmi(file) ==
    LET df   == WithIndex(file)
        mask == TotalsMask(df)
    IN  MapSeq(ApplyMask(df, mask), Tidy)

(***************************************************************************)
(* build_eng.                                                              *)
(***************************************************************************)
EmiCols == {"co2_tons", "so2_tons", "nox_tons"}

\* how="inner" in place of how="left"
MergeLeftInner(left, right) ==
    LET Rows(g) ==
          LET Match(e) == e.state = g.state /\ e.year = g.year /\ e.src = g.src
          IN  MapSeq(SelectSeq(right, Match), LAMBDA e : g @@ [f \in EmiCols |-> e[f]])
    IN  Concat(MapSeq(left, Rows))

\* eng_df.merge(df, how="left", on=["state", "year", "src"])   (line 214)
MergeLeft(left, right) ==
    LET Rows(g) ==
          LET Match(e) == e.state = g.state /\ e.year = g.year /\ e.src = g.src
              ms == SelectSeq(right, Match)
          IN  IF ms = <<>>
              THEN << g @@ [co2_tons |-> NaN, so2_tons |-> NaN, nox_tons |-> NaN] >>
              ELSE MapSeq(ms, LAMBDA e : g @@ [f \in EmiCols |-> e[f]])
    IN  Concat(MapSeq(left, Rows))

\* eng_df.fillna(0)   (line 216)
FillNa0(r) == [f \in DOMAIN r |-> IF f \in EmiCols \cup {"gen_mwh"} /\ IsNaN(r[f])
                                  THEN Num(0) ELSE r[f]]

\* lines 217-221
Excluded == {"US-Total", "US-TOTAL", "  ", "DC"}

\* line 221 left out: the DC rows stay
KeepStateWithDC(r) == r.state \notin {"US-Total", "US-TOTAL", "  "}

KeepState(r) == r.state \notin Excluded

\* line 223
RenameStateCode(r) == DropCol(r, {"state"}) @@ [code |-> r.state]

FinishEngDf(df) == MapSeq(SelectSeq(MapSeq(df, FillNa0), KeepState), RenameStateCode)

(***************************************************************************)
(* build_full, from the right join on.                                     *)
(***************************************************************************)
\* how="inner" in place of how="right"
MergeRightInner(left, right) ==
    LET Rows(e) ==
          LET Match(d) == d.year = e.year /\ d.code = e.code
          IN  MapSeq(SelectSeq(left, Match),
                     LAMBDA d : [state |-> d.state, pop |-> d.pop, pol |-> d.pol] @@ e)
    IN  Concat(MapSeq(right, Rows))

\* data.merge(eng_df, how="right", on=["year", "code"])   (line 250)
MergeRight(left, right) ==
    LET Rows(e) ==
          LET Match(d) == d.year = e.year /\ d.code = e.code
              ms == SelectSeq(left, Match)
          IN  IF ms = <<>>
              THEN << [state |-> "NA", pop |-> NaN, pol |-> "NA"] @@ e >>
              ELSE MapSeq(ms, LAMBDA d : [state |-> d.state, pop |-> d.pop, pol |-> d.pol] @@ e)
    IN  Concat(MapSeq(right, Rows))

\* co2_pp computed from the wrong column
PerCapitaRowSwapped(r) == r @@ [co2_pp |-> Div(r.gen_mwh, r.pop),
                                mwh_pp |-> Div(r.gen_mwh, r.pop)]

\* lines 253-254
PerCapitaRow(r) == r @@ [co2_pp |-> Div(r.co2_tons, r.pop),
                         mwh_pp |-> Div(r.gen_mwh, r.pop)]

\* groupby(["year"]) in place of groupby(["year", "code"])
SameGroupYearOnly(r, x) == x.year = r.year

\* the rows of one groupby(["year", "code"]) group   (line 257)
SameGroup(r, x) == x.year = r.year /\ x.code = r.code
GroupOf(df, r) == SelectSeq(df, LAMBDA x : SameGroup(r, x))

\* lines 257-263
SharesRow(df, r) ==
    LET g  == GroupOf(df, r)
        sg == SumSkipNa(MapSeq(g, LAMBDA x : x.gen_mwh))
        sp == SumSkipNa(MapSeq(g, LAMBDA x : x.mwh_pp))
    IN  r @@ [sum_gen_mwh |-> sg, sum_mwh_pp |-> sp,
              mwh_pp_pct |-> Div(r.mwh_pp, sp),
              gen_mwh_pct |-> Div(r.gen_mwh, sg)]

Shares(df) == MapSeq(df, LAMBDA r : SharesRow(df, r))

\* lines 267-269: one row per src, with the dataset-wide sums and their ratio
Sources(df) == {df[i].src : i \in 1..Len(df)}
Co2Mwh(df, s) ==
    LET rows == SelectSeq(df, LAMBDA x : x.src = s)
    IN  Div(SumSkipNa(MapSeq(rows, LAMBDA x : x.co2_tons)),
            SumSkipNa(MapSeq(rows, LAMBDA x : x.gen_mwh)))

\* ascending=True in place of ascending=False
BeforeAscending(df, a, b) ==
    \/ IsNaN(Co2Mwh(df, b))
    \/ (~IsNaN(Co2Mwh(df, a)) /\ ~Gt(Co2Mwh(df, a), Co2Mwh(df, b)))

\* sort_values("co2_mwh", ascending=False): b may not stand before a
\* (NaN ratios go last, whatever the direction)
Before(df, a, b) == \/ IsNaN(Co2Mwh(df, b))
                    \/ (~IsNaN(Co2Mwh(df, a)) /\ ~Gt(Co2Mwh(df, b), Co2Mwh(df, a)))

\* the orders the sort may leave the sources in (equal ratios in any order);
\* rank = position, 1-based   (lines 270-272)
Rankings(df) ==
    LET S == Sources(df)
    IN  {rk \in [S -> 1..Cardinality(S)] :
           /\ \A a, b \in S : a # b => rk[a] # rk[b]
           /\ \A a, b \in S : rk[a] < rk[b] => Before(df, a, b)}

\* data.merge(mwh_co2[["src", "rank"]], how="left", on="src")   (line 274)
AttachRank(df, rk) == MapSeq(df, LAMBDA r : r @@ [rank |-> rk[r.src]])

(***************************************************************************)
(* The energy side of build_full as a state machine: build_eng (lines      *)
(* 210-223), then lines 250-275.  data starts as the population and        *)
(* legislature table that lines 239-248 leave; data0 keeps that table for  *)
(* the properties to refer to.                                             *)
(***************************************************************************)
NoPop == /\ filled1 = <<>> /\ todo = <<>>
         /\ popFiles = <<>> /\ pop_df = <<>>

KeepPop == UNCHANGED <<data0, filled1, todo, popFiles, pop_df>>

GenRow(st, pr, sr, g) ==
    [year |-> 2000, state |-> st, producer |-> pr, src |-> sr, gen_mwh |-> Num(g)]

EmiRow(st, pr, sr, c) ==
    [year |-> 2000, state |-> st, producer |-> pr, src |-> sr,
     co2_tons |-> Num(c), so2_tons |-> Num(c + 1), nox_tons |-> Num(c + 2)]

DataRow(st, cd, yr, p, pl) ==
    [state |-> st, code |-> cd, year |-> yr, pop |-> Num(p), pol |-> pl]

\* the pairs of raw files with at most MaxEngRows rows in all
EngInputs(GU, EU) ==
    {fs \in SeqsUpTo(GU, MaxEngRows) \X SeqsUpTo(EU, MaxEngRows) :
       Len(fs[1]) + Len(fs[2]) <= MaxEngRows}

InitEnergy(GU, EU, DT) ==
    /\ pc = "load_gen"
    /\ \E fs \in EngInputs(GU, EU) : genFile = fs[1] /\ emiFile = fs[2]
    /\ data \in DT
    /\ data0 = data
    /\ eng_df = <<>>
    /\ NoPop

\* line 210
LoadGen ==
    /\ pc = "load_gen"
    /\ eng_df' = LoadCleanGen(genFile)
    /\ pc' = "load_emi"
    /\ UNCHANGED <<genFile, emiFile, data>> /\ KeepPop

\* lines 212-214
LoadMergeEmi ==
    /\ pc = "load_emi"
    /\ eng_df' = MergeLeft(eng_df, LoadCleanEmi(emiFile))
    /\ pc' = "finish_eng"
    /\ UNCHANGED <<genFile, emiFile, data>> /\ KeepPop

\* lines 216-225
FinishEng ==
    /\ pc = "finish_eng"
    /\ eng_df' = FinishEngDf(eng_df)
    /\ pc' = "join"
    /\ UNCHANGED <<genFile, emiFile, data>> /\ KeepPop

\* line 250
RightJoin ==
    /\ pc = "join"
    /\ data' = MergeRight(data, eng_df)
    /\ pc' = "per_capita"
    /\ UNCHANGED <<genFile, emiFile, eng_df>> /\ KeepPop

\* lines 253-254
PerCapita ==
    /\ pc = "per_capita"
    /\ data' = MapSeq(data, PerCapitaRow)
    /\ pc' = "shares"
    /\ UNCHANGED <<genFile, emiFile, eng_df>> /\ KeepPop

\* lines 257-263
SharesStep ==
    /\ pc = "shares"
    /\ data' = Shares(data)
    /\ pc' = "rank"
    /\ UNCHANGED <<genFile, emiFile, eng_df>> /\ KeepPop

\* lines 267-277
RankStep ==
    /\ pc = "rank"
    /\ \E rk \in Rankings(data) : data' = AttachRank(data, rk)
    /\ pc' = "done"
    /\ UNCHANGED <<genFile, emiFile, eng_df>> /\ KeepPop

NextEnergy == \/ LoadGen \/ LoadMergeEmi \/ FinishEng \/ RightJoin
              \/ PerCapita \/ SharesStep \/ RankStep

\* the state codes file: load_codes() (lines 44-50)
Letters == << [state |-> "California", code |-> "CA"],
              [state |-> "Nevada", code |-> "NV"],
              [state |-> "Texas", code |-> "TX"] >>

Codes == {Letters[i].code : i \in 1..Len(Letters)}

\* Inputs that vary the producer type and the source of the generation rows.
GenRowsClean == {GenRow(st, pr, sr, 7) :
                   st \in {"ca", "US-Total"}, pr \in {TEPI, "Electric Utility"},
                   sr \in {"Coal", "Total", "Hydroelectric Conventional"}}
EmiRowsClean == {EmiRow("CA", TEPI, "Coal", 3)}
DataClean == { << DataRow("California", "CA", 2000, 4, "Democrat") >> }

InitClean == InitEnergy(GenRowsClean, EmiRowsClean, DataClean)
SpecClean == InitClean /\ [][NextEnergy]_vars

\* Inputs that vary the state of the generation rows and the emission rows.
GenRowsEng == {GenRow(st, TEPI, sr, 5) :
                 st \in {"ca", "DC", "US-Total", "pr", "  "},
                 sr \in {"Coal", "Hydroelectric Conventional"}}
EmiRowsEng == {EmiRow(st, TEPI, sr, 3) :
                 st \in {"CA", "tx"}, sr \in {"Coal", "Hydroelectric Conventional"}}
DataEng == { <<>>,
             << DataRow("California", "CA", 2000, 4, "Democrat") >> }

InitEng == InitEnergy(GenRowsEng, EmiRowsEng, DataEng)
SpecEng == InitEng /\ [][NextEnergy]_vars

\* Inputs that vary the sources, the amounts and the population side.
GenRowsFull == {GenRow(st, TEPI, sr, g) :
                  st \in {"ca", "tx"}, sr \in {"Coal", "Natural Gas"}, g \in {0, 2}}
EmiRowsFull == {EmiRow("ca", TEPI, sr, c) : sr \in {"Coal", "Natural Gas"}, c \in {1, 3}}
DataFull == { <<>>,
              << DataRow("California", "CA", 2000, 4, "Democrat") >>,
              << DataRow("California", "CA", 2000, 0, "Split") >>,
              << DataRow("Nevada", "NV", 2000, 5, "Republican"),
                 DataRow("California", "CA", 2000, 4, "NA") >>,
              << DataRow("California", "CA", 2002, 6, "Democrat"),
                 DataRow("Texas", "TX", 2000, 3, "Republican") >> }

InitFull == InitEnergy(GenRowsFull, EmiRowsFull, DataFull)
SpecFull == InitFull /\ [][NextEnergy]_vars

(***************************************************************************)
(* The per-state forward-fill of build_full (lines 246-248), run on the    *)
(* table that lines 243-244 leave, and then run once more on its own       *)
(* output.  data0 keeps the table before the first run, filled1 the table  *)
(* after it.                                                               *)
(***************************************************************************)
\* fillna(method="ffill", limit=1): a cell is filled from the cell right
\* above it only
RECURSIVE FFillOnce(_, _)
FFillOnce(s, last) ==
    IF s = <<>> THEN <<>>
    ELSE <<IF Head(s) = "NA" THEN last ELSE Head(s)>> \o FFillOnce(Tail(s), Head(s))

\* Series.fillna(method="ffill"): last is the last valid value seen so far
RECURSIVE FFill(_, _)
FFill(s, last) ==
    IF s = <<>> THEN <<>>
    ELSE LET v == IF Head(s) = "NA" THEN last ELSE Head(s)
         IN  <<v>> \o FFill(Tail(s), v)

\* data["code"].unique(): the codes in the order of their first row
RECURSIVE Unique(_, _)
Unique(s, seen) ==
    IF s = <<>> THEN <<>>
    ELSE IF Head(s) \in seen THEN Unique(Tail(s), seen)
    ELSE <<Head(s)>> \o Unique(Tail(s), seen \cup {Head(s)})

UniqueCodes(df) == Unique(MapSeq(df, LAMBDA r : r.code), {})

\* the fill without the state filter: data["pol"].fillna(method="ffill")
FillStateAllRows(df, st) ==
    LET vals == FFill(MapSeq(df, LAMBDA r : r.pol), "NA")
    IN  [i \in 1..Len(df) |-> [df[i] EXCEPT !.pol = vals[i]]]

\* lines 247-248: the pol cells of the rows of one state, filled and put back
FillState(df, st) ==
    LET InState(r) == r.code = st
        vals == FFill(MapSeq(SelectSeq(df, InState), LAMBDA r : r.pol), "NA")
        Pos(i) == Cardinality({j \in 1..i : df[j].code = st})
    IN  [i \in 1..Len(df) |->
           IF df[i].code = st THEN [df[i] EXCEPT !.pol = vals[Pos(i)]] ELSE df[i]]

StateName(cd) == CASE cd = "AL" -> "Alabama" [] cd = "AK" -> "Alaska" [] OTHER -> "NA"

\* the tables of at most MaxFillRows rows, one row every second year
FillTables ==
    UNION { { [i \in 1..k |->
                 DataRow(StateName(cp[i][1]), cp[i][1], 1990 + 2 * i, 4, cp[i][2])] :
              cp \in [1..k -> {"AL", "AK"} \X {"Republican", "Democrat", "NA"}] } :
            k \in 0..MaxFillRows }

InitFill ==
    /\ pc = "fill_start"
    /\ data \in FillTables
    /\ data0 = data
    /\ filled1 = <<>> /\ todo = <<>>
    /\ genFile = <<>> /\ emiFile = <<>> /\ eng_df = <<>>
    /\ popFiles = <<>> /\ pop_df = <<>>

KeepEnergy == UNCHANGED <<genFile, emiFile, eng_df, popFiles, pop_df>>

\* line 246: the codes to loop over
StartFill ==
    /\ pc = "fill_start"
    /\ todo' = UniqueCodes(data)
    /\ pc' = "fill"
    /\ UNCHANGED <<data, data0, filled1>> /\ KeepEnergy

\* lines 247-248: one turn of the loop
FillStep ==
    /\ pc \in {"fill", "fill2"}
    /\ todo # <<>>
    /\ data' = FillState(data, Head(todo))
    /\ todo' = Tail(todo)
    /\ UNCHANGED <<pc, data0, filled1>> /\ KeepEnergy

\* the loop ends
EndFill ==
    /\ pc \in {"fill", "fill2"}
    /\ todo = <<>>
    /\ pc' = IF pc = "fill" THEN "filled" ELSE "filled2"
    /\ UNCHANGED <<data, data0, filled1, todo>> /\ KeepEnergy

\* the loop of lines 246-248 once more, on its own output
Refill ==
    /\ pc = "filled"
    /\ filled1' = data
    /\ todo' = UniqueCodes(data)
    /\ pc' = "fill2"
    /\ UNCHANGED <<data, data0>> /\ KeepEnergy

NextFill == StartFill \/ FillStep \/ EndFill \/ Refill

SpecFill == InitFill /\ [][NextFill]_vars

(***************************************************************************)
(* load_clean_pop and build_pop.  A wide table is [cols, rows]: cols is    *)
(* the sequence of the column names after the first column, and a row is   *)
(* [state, vals] with vals[c] the cell of column c.  The first column is   *)
(* the one lines 74-77 name "state".                                       *)
(***************************************************************************)
\* "-" in col   (line 67)
HasHyphen(c) == c \in {"2000-2009", "2010-2019"}

\* str.startswith(".")   (line 70)
StartsWithDot(st) == st \in {".California", ".Nevada", ".Puerto Rico"}

\* str.strip(PUNCTUATION)   (line 100)
StripPunct(st) == CASE st = ".California" -> "California"
                    [] st = ".Nevada" -> "Nevada"
                    [] st = ".Puerto Rico" -> "Puerto Rico"
                    [] OTHER -> st

ColSet(t) == {t.cols[i] : i \in 1..Len(t.cols)}

\* lines 63-79
LoadCleanPop(file) ==
    LET Complete(r) == r.state # "NA" /\ \A c \in ColSet(file) : ~IsNaN(r.vals[c])
        keep_cols == SelectSeq(file.cols, LAMBDA c : ~HasHyphen(c))
        keep == {keep_cols[i] : i \in 1..Len(keep_cols)}
        IsState(r) == StartsWithDot(r.state)
    IN  [cols |-> keep_cols,
         rows |-> MapSeq(SelectSeq(SelectSeq(file.rows, Complete), IsState),
                         LAMBDA r : [r EXCEPT !.vals = [c \in keep |-> r.vals[c]]])]

\* pop_df.merge(df, how="inner", on="state"): a column name that both sides
\* have gets the suffix _x on the left and _y on the right   (line 98)
MergePop(left, right) ==
    LET both == ColSet(left) \cap ColSet(right)
        LName(c) == IF c \in both THEN c \o "_x" ELSE c
        RName(c) == IF c \in both THEN c \o "_y" ELSE c
        Vals(l, r) ==
          [n \in {LName(c) : c \in ColSet(left)} |->
             l.vals[CHOOSE c \in ColSet(left) : LName(c) = n]]
          @@ [n \in {RName(c) : c \in ColSet(right)} |->
                r.vals[CHOOSE c \in ColSet(right) : RName(c) = n]]
        Rows(l) == MapSeq(SelectSeq(right.rows, LAMBDA r : r.state = l.state),
                          LAMBDA r : [state |-> l.state, vals |-> Vals(l, r)])
    IN  [cols |-> MapSeq(left.cols, LName) \o MapSeq(right.cols, RName),
         rows |-> Concat(MapSeq(left.rows, Rows))]

\* lines 100-101: strip the state names, then letters.merge(pop_df, how="inner")
JoinLetters(letters, t) ==
    LET stripped == MapSeq(t.rows, LAMBDA r : [r EXCEPT !.state = StripPunct(r.state)])
        Rows(l) == MapSeq(SelectSeq(stripped, LAMBDA r : r.state = l.state),
                          LAMBDA r : [state |-> l.state, code |-> l.code, vals |-> r.vals])
    IN  [cols |-> <<"code">> \o t.cols, rows |-> Concat(MapSeq(letters, Rows))]

\* lines 103-105: every column but "state" with a name of more than 4
\* characters goes
DropLong(t) ==
    LET drop_cols == {c \in ColSet(t) : c # "state" /\ Len(c) > 4}
    IN  [cols |-> SelectSeq(t.cols, LAMBDA c : c \notin drop_cols), rows |-> t.rows]

\* lines 107-111: one long row per value column and wide row, column by column
Melt(t) ==
    LET value_vars == SelectSeq(t.cols, LAMBDA c : c \notin {"state", "code"})
        Col(c) == MapSeq(t.rows, LAMBDA r : [state |-> r.state, code |-> r.code,
                                             year |-> c, pop |-> r.vals[c]])
    IN  Concat(MapSeq(value_vars, Col))

(***************************************************************************)
(* build_pop as a state machine.                                           *)
(***************************************************************************)
YearNo(c) == CASE c = "1990" -> 1990 [] c = "1995" -> 1995 [] c = "2000" -> 2000
               [] c = "2005" -> 2005 [] c = "2010" -> 2010 [] c = "2015" -> 2015
               [] OTHER -> 0

StateNo(st) == CASE st = ".California" -> 1 [] st = ".Nevada" -> 2
                 [] st = ".Puerto Rico" -> 3 [] OTHER -> 4

\* the cell of file k for a state and a column
PopVal(k, st, c) == Num(100 * YearNo(c) + 10 * k + StateNo(st))

\* the year columns a file of each era may have, and its other columns
EraYears == << <<"1990", "1995", "2000">>, <<"2000", "2005">>, <<"2010", "2015">> >>
EraExtra == << <<>>, <<"2000-2009">>, <<"census">> >>

\* a census file: its states, then Puerto Rico, a regional aggregate and a
\* footnote line without numbers
PopFile(k, years, states) ==
    LET cols == years \o EraExtra[k]
        Full(st) == [state |-> st, vals |-> [c \in {cols[i] : i \in 1..Len(cols)} |-> PopVal(k, st, c)]]
    IN  [cols |-> cols,
         rows |-> MapSeq(states, Full)
                  \o << Full(".Puerto Rico"), Full("Northeast"),
                        [state |-> "Note", vals |-> [c \in {cols[i] : i \in 1..Len(cols)} |-> NaN]] >>]

SubSeqs(s) == {SelectSeq(s, LAMBDA x : x \in S) : S \in SUBSET {s[i] : i \in 1..Len(s)}}

PopFilesOf(k) == {PopFile(k, ys, sts) : ys \in SubSeqs(EraYears[k]) \ {<<>>},
                                        sts \in SubSeqs(<<".California", ".Nevada">>)}

InitPop ==
    /\ pc = "pop_first"
    /\ popFiles \in PopFilesOf(1) \X PopFilesOf(2) \X PopFilesOf(3)
    /\ pop_df = <<>> /\ todo = <<>>
    /\ genFile = <<>> /\ emiFile = <<>> /\ eng_df = <<>>
    /\ data = <<>> /\ data0 = <<>> /\ filled1 = <<>>

KeepRest == UNCHANGED <<genFile, emiFile, eng_df, data, data0, filled1, popFiles>>

\* line 94
LoadFirstPop ==
    /\ pc = "pop_first"
    /\ pop_df' = LoadCleanPop(Head(popFiles))
    /\ todo' = Tail(popFiles)
    /\ pc' = "pop_merge"
    /\ KeepRest

\* lines 96-98: one turn of the loop
MergeNextPop ==
    /\ pc = "pop_merge"
    /\ todo # <<>>
    /\ pop_df' = MergePop(pop_df, LoadCleanPop(Head(todo)))
    /\ todo' = Tail(todo)
    /\ pc' = IF Tail(todo) = <<>> THEN "pop_codes" ELSE "pop_merge"
    /\ KeepRest

\* lines 100-101
JoinCodes ==
    /\ pc = "pop_codes"
    /\ pop_df' = JoinLetters(Letters, pop_df)
    /\ pc' = "pop_drop"
    /\ UNCHANGED todo /\ KeepRest

\* lines 103-105
DropLongCols ==
    /\ pc = "pop_drop"
    /\ pop_df' = DropLong(pop_df)
    /\ pc' = "pop_melt"
    /\ UNCHANGED todo /\ KeepRest

\* lines 107-113
MeltPop ==
    /\ pc = "pop_melt"
    /\ pop_df' = Melt(pop_df)
    /\ pc' = "pop_done"
    /\ UNCHANGED todo /\ KeepRest

NextPop == LoadFirstPop \/ MergeNextPop \/ JoinCodes \/ DropLongCols \/ MeltPop

SpecPop == InitPop /\ [][NextPop]_vars

(***************************************************************************)
(* Properties of the energy side.                                          *)
(***************************************************************************)
RowsOf(t) == {t[i] : i \in 1..Len(t)}

UsTotal == {"US-Total", "US-TOTAL"}

IndustryTotal(r) == r.producer = TEPI /\ r.src # "Total"

\* o is the cleaned form of the raw generation row r
FromGenRow(o, r) == /\ o.state = Upper(r.state) /\ o.src = Canon(r.src)
                    /\ o.year = r.year /\ o.gen_mwh = r.gen_mwh

\* C8 as stated: the output of load_clean_eng on a generation file holds only
\* rows of producer type "Total Electric Power Industry", no row of source
\* "Total" and no US-total row.
C8_CleanerDropsUsTotal ==
    pc = "load_emi" =>
      \A o \in RowsOf(eng_df) :
        /\ \E r \in RowsOf(genFile) : r.producer = TEPI /\ FromGenRow(o, r)
        /\ o.src # "Total"
        /\ o.state \notin UsTotal

\* C8 amended: the output of load_clean_eng on a generation file is exactly
\* the rows of producer type "Total Electric Power Industry" whose source is
\* not "Total"; a US-total row among them is kept (as US-TOTAL) by the
\* cleaner and is removed only by build_eng.
C8_CleanerKeepsUsTotal ==
    /\ pc = "load_emi" =>
         /\ \A o \in RowsOf(eng_df) :
              /\ \E r \in RowsOf(genFile) : IndustryTotal(r) /\ FromGenRow(o, r)
              /\ o.src # "Total"
         /\ Len(eng_df) = Count(genFile, IndustryTotal)
         /\ \A r \in RowsOf(genFile) :
              IndustryTotal(r) /\ r.state \in UsTotal =>
                \E o \in RowsOf(eng_df) : o.state = "US-TOTAL" /\ FromGenRow(o, r)
    /\ pc \in {"join", "per_capita", "shares", "rank", "done"} =>
         \A o \in RowsOf(eng_df) : o.code \notin UsTotal

C8_Witness ==
    /\ pc = "load_emi"
    /\ \E r \in RowsOf(genFile) : r.src = "Total" /\ r.producer = TEPI
    /\ \E r \in RowsOf(genFile) : r.producer # TEPI /\ r.src # "Total"
    /\ \E o \in RowsOf(eng_df) : o.state = "US-TOTAL"

CleanGen == LoadCleanGen(genFile)
CleanEmi == LoadCleanEmi(emiFile)
KeptGen == SelectSeq(CleanGen, LAMBDA g : g.state \notin Excluded)
EmiMatches(g) == {j \in 1..Len(CleanEmi) :
                    /\ CleanEmi[j].state = g.state /\ CleanEmi[j].year = g.year
                    /\ CleanEmi[j].src = g.src}
SameGen(o, g) == /\ o.code = g.state /\ o.year = g.year /\ o.src = g.src
                 /\ o.gen_mwh = g.gen_mwh /\ o.renew = g.renew

\* C9: build_eng is a left join of the cleaned generation rows with the
\* cleaned emission rows on (state, year, src): every cleaned generation row
\* that the exclusion keeps is in the output, with the three emission values
\* of the emission row of the same key, or 0 for all three when there is no
\* such row; an emission row without a generation row adds nothing.
C9_BuildEngLeftJoin ==
    pc = "join" =>
      /\ \A g \in RowsOf(KeptGen) : \E o \in RowsOf(eng_df) : SameGen(o, g)
      /\ \A o \in RowsOf(eng_df) :
           \E g \in RowsOf(KeptGen) :
             /\ SameGen(o, g)
             /\ IF EmiMatches(g) = {}
                THEN \A f \in EmiCols : o[f] = Num(0)
                ELSE \E j \in EmiMatches(g) : \A f \in EmiCols : o[f] = CleanEmi[j][f]
      /\ Len(eng_df) =
           Cardinality({i \in 1..Len(KeptGen) : EmiMatches(KeptGen[i]) = {}})
           + Cardinality({ij \in (1..Len(KeptGen)) \X (1..Len(CleanEmi)) :
                            ij[2] \in EmiMatches(KeptGen[ij[1]])})

C9_Witness ==
    /\ pc = "join"
    /\ \E o \in RowsOf(eng_df) : o.src = "Hydroelectric" /\ o.co2_tons = Num(3)
    /\ \E o \in RowsOf(eng_df) : o.co2_tons = Num(0) /\ o.nox_tons = Num(0)
    /\ Len(eng_df) < Len(CleanGen) + Len(CleanEmi)

\* C1 as stated: every row of the final table has a code of the CodeTable,
\* and none has code DC.
C1_CodeInCodeTable ==
    pc = "done" => \A r \in RowsOf(data) : r.code \in Codes /\ r.code # "DC"

\* C1 amended: every row of the final table has the upper-cased state of a
\* generation row as its code, which is never DC, US-TOTAL or the two-space
\* blank, and which is a code of the CodeTable whenever the row has a
\* population; a state of the generation file that the CodeTable lacks stays
\* in the table, without population.
C1_CodeFromGeneration ==
    pc = "done" =>
      \A r \in RowsOf(data) :
        /\ r.code \notin {"DC", "US-TOTAL", "US-Total", "  "}
        /\ \E g \in RowsOf(genFile) : r.code = Upper(g.state)
        /\ ~IsNaN(r.pop) => r.code \in Codes

C1_Witness ==
    /\ pc = "done"
    /\ \E g \in RowsOf(genFile) : g.state = "DC"
    /\ \E r \in RowsOf(data) : r.code = "PR" /\ IsNaN(r.pop)
    /\ \E r \in RowsOf(data) : r.code = "CA" /\ ~IsNaN(r.pop)

RECURSIVE TotalOf(_, _, _)
TotalOf(df, s, col) ==
    IF df = <<>> THEN 0
    ELSE (IF Head(df).src = s THEN Head(df)[col][1] ELSE 0) + TotalOf(Tail(df), s, col)

\* the dataset-wide ratio of a is higher than that of b
HigherRatio(a, b) ==
    LET ca == TotalOf(data, a, "co2_tons")  ga == TotalOf(data, a, "gen_mwh")
        cb == TotalOf(data, b, "co2_tons")  gb == TotalOf(data, b, "gen_mwh")
    IN  \/ ga > 0 /\ gb > 0 /\ ca * gb > cb * ga
        \/ ga = 0 /\ ca > 0 /\ gb > 0

\* C2: the ranks of the N sources of the final table are a permutation of
\* 1..N, every row carries the rank of its source, and a source with a higher
\* dataset-wide ratio sum(co2_tons) / sum(gen_mwh) has a smaller rank (so
\* rank 1 is the highest ratio).
C2_RankPermutation ==
    pc = "done" =>
      LET N == Cardinality({r.src : r \in RowsOf(data)})
      IN  /\ \A r \in RowsOf(data) : r.rank \in 1..N
          /\ {r.rank : r \in RowsOf(data)} = 1..N
          /\ \A r, q \in RowsOf(data) : (r.src = q.src) <=> (r.rank = q.rank)
          /\ \A r, q \in RowsOf(data) : HigherRatio(r.src, q.src) => r.rank < q.rank

C2_Witness ==
    /\ pc = "done"
    /\ \E r, q \in RowsOf(data) :
         /\ r.src # q.src /\ HigherRatio(r.src, q.src)
         /\ TotalOf(data, r.src, "gen_mwh") > 0 /\ TotalOf(data, q.src, "gen_mwh") > 0
         /\ r.rank = 1 /\ q.rank = 2

\* the exact sum of the fractions xs, as an unreduced pair
RECURSIVE FracSum(_)
FracSum(xs) ==
    IF xs = <<>> THEN <<0, 1>>
    ELSE LET t == FracSum(Tail(xs))
         IN  <<Head(xs)[1] * t[2] + t[1] * Head(xs)[2], Head(xs)[2] * t[2]>>

RECURSIVE IntSum(_)
IntSum(xs) == IF xs = <<>> THEN 0 ELSE Head(xs)[1] + IntSum(Tail(xs))

GroupRows(r) == SelectSeq(data, LAMBDA x : x.year = r.year /\ x.code = r.code)

\* C3: in the final table, for every (year, code) group whose sum_gen_mwh is
\* neither zero nor missing, sum_gen_mwh is the sum of gen_mwh over the group
\* and the gen_mwh_pct of the rows of the group add up to 1.
C3_SharesSumToOne ==
    pc = "done" =>
      \A r \in RowsOf(data) :
        r.sum_gen_mwh \notin {Num(0), NaN} =>
          LET g == GroupRows(r)
              t == FracSum(MapSeq(g, LAMBDA x : x.gen_mwh_pct))
          IN  /\ r.sum_gen_mwh = Num(IntSum(MapSeq(g, LAMBDA x : x.gen_mwh)))
              /\ t[2] > 0 /\ t[1] = t[2]

C3_Witness ==
    /\ pc = "done"
    /\ \E r, q, o \in RowsOf(data) :
         /\ r.code = q.code /\ r.src # q.src /\ o.code # r.code
         /\ r.gen_mwh_pct = <<1, 2>> /\ q.gen_mwh_pct = <<1, 2>>
         /\ o.gen_mwh_pct = <<1, 1>>

\* C7: in the final table, co2_pp = co2_tons / pop on every row with pop > 0,
\* and co2_pp is missing on every row whose pop is missing.
C7_PerCapita ==
    pc = "done" =>
      \A r \in RowsOf(data) :
        /\ (r.pop[2] = 1 /\ r.pop[1] > 0) =>
             /\ r.co2_pp[2] > 0
             /\ r.co2_pp[1] * r.pop[1] = r.co2_tons[1] * r.co2_pp[2]
        /\ IsNaN(r.pop) => IsNaN(r.co2_pp)

C7_Witness ==
    /\ pc = "done"
    /\ \E r \in RowsOf(data) : r.pop = Num(4) /\ r.co2_tons = Num(3) /\ r.co2_pp = <<3, 4>>
    /\ \E r \in RowsOf(data) : IsNaN(r.pop) /\ IsNaN(r.co2_pp)

SameEng(r, e) == \A f \in DOMAIN e : r[f] = e[f]
PopMatches(e) == {j \in 1..Len(data0) : data0[j].year = e.year /\ data0[j].code = e.code}

\* C10: the join of line 250 is a right join on (year, code): every row of
\* the energy table is in the final table, with pop and pol missing when no
\* population row has its (year, code) and with those of such a row
\* otherwise, and every row of the final table is a row of the energy table.
C10_RightJoin ==
    pc \in {"per_capita", "shares", "rank", "done"} =>
      /\ \A e \in RowsOf(eng_df) : \E r \in RowsOf(data) : SameEng(r, e)
      /\ \A r \in RowsOf(data) :
           \E e \in RowsOf(eng_df) :
             /\ SameEng(r, e)
             /\ IF PopMatches(e) = {}
                THEN IsNaN(r.pop) /\ r.pol = "NA"
                ELSE \E j \in PopMatches(e) : r.pop = data0[j].pop /\ r.pol = data0[j].pol
      /\ Len(data) =
           Cardinality({i \in 1..Len(eng_df) : PopMatches(eng_df[i]) = {}})
           + Cardinality({ij \in (1..Len(eng_df)) \X (1..Len(data0)) :
                            ij[2] \in PopMatches(eng_df[ij[1]])})

C10_Witness ==
    /\ pc = "done"
    /\ \E r \in RowsOf(data) : r.code = "TX" /\ r.pop = Num(3)
    /\ \E r \in RowsOf(data) : r.code = "CA" /\ IsNaN(r.pop) /\ r.pol = "NA"
    /\ \E d \in RowsOf(data0) : \A r \in RowsOf(data) : r.year # d.year \/ r.code # d.code

(***************************************************************************)
(* Properties of the forward-fill.                                         *)
(***************************************************************************)
\* the rows of the state of row i, up to row i, that have a pol before the fill
ValidUpTo(i) == {j \in 1..i : data0[j].code = data0[i].code /\ data0[j].pol # "NA"}

Last(S) == CHOOSE j \in S : \A k \in S : k <= j

Example == << DataRow("Alabama", "AL", 1992, 4, "Republican"),
              DataRow("Alabama", "AL", 1994, 4, "NA"),
              DataRow("Alabama", "AL", 1996, 4, "Democrat") >>

\* C4: after the per-state forward-fill, a missing pol is the most recent
\* non-missing pol of an earlier row of the same state code, a non-missing
\* pol is unchanged, a missing pol with no earlier value of its state stays
\* missing, and nothing else changes; on the rows (AL, 1992, Republican),
\* (AL, 1994, missing), (AL, 1996, Democrat) the 1994 row gets Republican.
C4_ForwardFillPerState ==
    pc = "filled" =>
      /\ Len(data) = Len(data0)
      /\ \A i \in 1..Len(data) :
           /\ data[i] = [data0[i] EXCEPT !.pol = data[i].pol]
           /\ data[i].pol = IF ValidUpTo(i) = {} THEN "NA"
                            ELSE data0[Last(ValidUpTo(i))].pol
      /\ data0 = Example => data[2].pol = "Republican" /\ data[3].pol = "Democrat"

C4_Witness ==
    /\ pc = "filled"
    /\ data0 = Example
    /\ data[2].pol = "Republican"

\* C5: the per-state forward-fill is idempotent: a second run of the loop on
\* the output of the first changes no cell.
C5_FillIdempotent == pc = "filled2" => data = filled1

C5_Witness ==
    /\ pc = "filled2"
    /\ \E i \in 1..Len(data0) : data0[i].pol = "NA" /\ filled1[i].pol = "Republican"
    /\ \E i \in 1..Len(data0) : data0[i].pol = "NA" /\ filled1[i].pol = "NA"
    /\ \E i, j \in 1..Len(data0) : data0[i].code # data0[j].code

(***************************************************************************)
(* Properties of build_pop.                                                *)
(***************************************************************************)
\* the states a file has after cleaning, by their stripped names
CleanStates(k) ==
    {StripPunct(r.state) : r \in RowsOf(LoadCleanPop(popFiles[k]).rows)}

CommonStates == (CleanStates(1) \cap CleanStates(2) \cap CleanStates(3))
                \cap {l.state : l \in RowsOf(Letters)}

YearColumns(k) == {c \in ColSet(popFiles[k]) : YearNo(c) # 0}

AllYearColumns == YearColumns(1) \cup YearColumns(2) \cup YearColumns(3)

PopRowsFor(st, y) == {i \in 1..Len(pop_df) : pop_df[i].state = st /\ pop_df[i].year = y}

\* C6: with every state at most once in each file, the output of build_pop
\* has exactly one row for each state that is in all three files and in the
\* CodeTable and each year column of any of the three files, with the code of
\* the state and the cell of a file, and no row for any other state.
C6_OneRowPerStateAndYear ==
    pc = "pop_done" =>
      /\ \A st \in CommonStates : \A y \in AllYearColumns :
           /\ Cardinality(PopRowsFor(st, y)) = 1
           /\ \A i \in PopRowsFor(st, y) :
                /\ \E l \in RowsOf(Letters) : l.state = st /\ l.code = pop_df[i].code
                /\ \E k \in 1..3 : \E r \in RowsOf(popFiles[k].rows) :
                     /\ StripPunct(r.state) = st /\ y \in ColSet(popFiles[k])
                     /\ pop_df[i].pop = r.vals[y]
      /\ \A r \in RowsOf(pop_df) : r.state \in CommonStates

\* Where build_pop and C6 agree: on files no two of which share a year column.
C6_HoldsOnDisjointYears ==
    (\A j, k \in 1..3 : j # k => YearColumns(j) \cap YearColumns(k) = {})
      => C6_OneRowPerStateAndYear

\* the scenario of C6: three files of two years each that share one state only
C6_Scenario ==
    /\ pc = "pop_done"
    /\ CommonStates = {"California"}
    /\ AllYearColumns = {"1990", "1995", "2005", "2000", "2010", "2015"}
    /\ YearColumns(1) = {"1990", "1995"} /\ YearColumns(2) = {"2000", "2005"}
    /\ Len(pop_df) = 6

====
